---- MODULE Spec2Model ----
(***************************************************************************)
(* Command/response synchronisation of the admin dashboard                 *)
(* (src/src/pages/Dashboard.tsx): sendCommand writes a chat record twice   *)
(* through Firebase set(), the remote device writes status and response    *)
(* to the same record, and the chat listener (handleValue) turns every     *)
(* snapshot of the channel into the sorted chatMessages state.             *)
(*                                                                         *)
(* A stored record is a TLA+ record whose DOMAIN is the set of properties  *)
(* the JavaScript object carries, so that an absent property, a whole      *)
(* record overwrite and an object spread are what they are in the code.    *)
(* Storage slots (Firebase child keys, push keys) are positive integers in *)
(* key order; a key property of 0 stands for an empty (falsy) key.         *)
(***************************************************************************)
EXTENDS Integers, Sequences, FiniteSets, TLC

VARIABLES
    db,            \* the channel chat/<uid> on the server: slot -> record
    nextKey,       \* the next push key push(chatRef) hands out
    clock,         \* the last value Date.now() returned
    calls,         \* the sendCommand calls made so far, in call order
    agentWrote,    \* slots the remote device has written to
    agentWrites,   \* number of writes of the remote device
    listener,      \* "init" before the effect ran, "on" after onValue, "off" after off
    pending,       \* value events on their way to handleValue (snapshots)
    chatMessages,  \* React state set by setChatMessages
    handled,       \* <<the snapshot of the last handleValue call>>, <<>> before it
    disposals,     \* number of calls of the listener effect's cleanup
    history        \* the length of every emission of handleValue so far, in order

vars == <<db, nextKey, clock, calls, agentWrote, agentWrites,
          listener, pending, chatMessages, handled, disposals, history>>

----------------------------------------------------------------------------
(* Bounds of the model *)

\* sendCommand calls in the dispatcher specification
MaxCalls == 2
\* sendCommand calls in the specification of the whole dashboard
MaxSessionCalls == 1
\* writes of the remote device
MaxAgentWrites == 1
\* value events not yet delivered to handleValue
MaxPending == 1
\* storage slots of a stored channel in the projector specification
MaxSlots == 2
\* largest timestamp of a stored record in the projector specification
MaxTime == 1
\* calls of the listener effect's cleanup
MaxDisposals == 2

\* the parts a response is put together from in the specification of the
\* response bubble
MaxFragments == 3

\* the texts between the '|' of a path string
MaxPairs == 3
\* the entries of the commands table the operator chooses from, in the
\* specification of the dispatcher and in that of the whole dashboard
MaxCommands == 2
\* the largest value Date.now() returns
MaxNow == 1
MaxSessionCommands == 1

----------------------------------------------------------------------------
(* MessageStatus, ServerCommands *)

BEFORE_UPLOADED == "BEFORE_UPLOADED"
UPLOADED == "UPLOADED"
DELIVERED == "DELIVERED"

MessageStatus == {BEFORE_UPLOADED, UPLOADED, DELIVERED}

\* Position of a status in the order BEFORE_UPLOADED < UPLOADED < DELIVERED.
StatusRank(s) ==
    CASE s = BEFORE_UPLOADED -> 0
      [] s = UPLOADED -> 1
      [] s = DELIVERED -> 2
      [] OTHER -> 0 - 1

ServerCommands ==
    {"TakeSelfie", "GetVoiceNote", "GetSimNumbers", "GetLocation",
     "GetLocationTimeline", "SendNotification"}

\* The commands of the entries of the commands table, in the table's order.
commands ==
    <<"GetLocation", "TakeSelfie", "GetVoiceNote", "GetSimNumbers",
      "GetLocationTimeline", "SendNotification">>

\* The commands of the first n entries of the table.
FirstCommands(n) == {commands[i] : i \in {j \in 1..Len(commands) : j <= n}}

\* The values Date.now() returns, in any order from one call to the next.
Instants == 1..MaxNow

\* The null argument of sendCommand (command: ServerCommands | null).
NullCommand == "null"

----------------------------------------------------------------------------
(* JavaScript objects *)

Has(r, f) == f \in DOMAIN r

\* { ...r, f: v }
Spread(r, f, v) == [g \in (DOMAIN r) \cup {f} |-> IF g = f THEN v ELSE r[g]]

\* A null entry of a snapshot: reading a property of it throws a TypeError.
NullEntry == [null |-> TRUE]

IsNull(m) == Has(m, "null")

\* the set of slots of a snapshot in key order, as Object.entries lists them
SlotSeq(S) ==
    [i \in 1..Cardinality(S) |->
        CHOOSE x \in S : Cardinality({y \in S : y < x}) = i - 1]

----------------------------------------------------------------------------
(* handleValue: the chat listener *)

\* !msgData.key is false: the record has a non-empty key of its own
HasOwnKey(msgData) == Has(msgData, "key") /\ msgData.key # 0

\* faulty variant: the Firebase key replaces the key of every record
NormalizeOverwrites(firebaseKey, msgData) == Spread(msgData, "key", firebaseKey)

\* the callback of Object.entries(data).map: the Firebase key is added to a
\* record without a key of its own
Normalize(firebaseKey, msgData) ==
    IF ~HasOwnKey(msgData) THEN Spread(msgData, "key", firebaseKey) ELSE msgData

\* a.commandTimestamp || a.timestamp || 0
SortTime(a) ==
    IF Has(a, "commandTimestamp") /\ a.commandTimestamp # 0 THEN a.commandTimestamp
    ELSE IF Has(a, "timestamp") /\ a.timestamp # 0 THEN a.timestamp
    ELSE 0

\* the comparator of messages.sort: aTime - bTime
Compare(a, b) == SortTime(a) - SortTime(b)

\* faulty variant: x goes in front of the elements it ties with
RECURSIVE InsertSortedBeforeTies(_, _)
InsertSortedBeforeTies(x, s) ==
    IF s = <<>> THEN <<x>>
    ELSE IF Compare(Head(s), x) < 0
         THEN <<Head(s)>> \o InsertSortedBeforeTies(x, Tail(s))
    ELSE <<x>> \o s

\* faulty variant: x is dropped when it ties with an element
RECURSIVE InsertSortedDropsTies(_, _)
InsertSortedDropsTies(x, s) ==
    IF s = <<>> THEN <<x>>
    ELSE IF Compare(Head(s), x) = 0 THEN s
    ELSE IF Compare(Head(s), x) < 0
         THEN <<Head(s)>> \o InsertSortedDropsTies(x, Tail(s))
    ELSE <<x>> \o s

\* Array.prototype.sort is stable: x goes behind every element that does not
\* compare greater than it
RECURSIVE InsertSorted(_, _)
InsertSorted(x, s) ==
    IF s = <<>> THEN <<x>>
    ELSE IF Compare(Head(s), x) <= 0 THEN <<Head(s)>> \o InsertSorted(x, Tail(s))
    ELSE <<x>> \o s

RECURSIVE SortMessages(_)
SortMessages(s) ==
    IF s = <<>> THEN <<>>
    ELSE InsertSorted(s[Len(s)], SortMessages(SubSeq(s, 1, Len(s) - 1)))

\* Object.entries(data).map(...) of a snapshot without null entries
Messages(data) ==
    LET keys == SlotSeq(DOMAIN data)
    IN [i \in 1..Len(keys) |-> Normalize(keys[i], data[keys[i]])]

\* msgData.key of a null entry throws inside the try block
Throws(data) == \E k \in DOMAIN data : IsNull(data[k])

\* the argument of the one setChatMessages call handleValue makes for
\* snapshot.val() = data (an empty channel has val() = null)
HandleValue(data) ==
    IF DOMAIN data = {} THEN <<>>
    ELSE IF Throws(data) THEN <<>>
    ELSE SortMessages(Messages(data))

----------------------------------------------------------------------------
(* sendCommand *)

\* faulty variant: the guard on the command is missing
CommandAcceptedAlways(command) == TRUE

\* if (!command) return;
CommandAccepted(command) == command # NullCommand

\* faulty variant: the key of the previous push is handed out again
PushKeyStale == IF calls = <<>> THEN nextKey ELSE nextKey - 1

\* push(chatRef).key: a key no earlier push and no stored record has
PushKey == nextKey

\* the chatMessage object built before the first set()
ChatMessage(pushKey, command, now) ==
    [key |-> pushKey, command |-> command, commandTimestamp |-> now,
     status |-> BEFORE_UPLOADED]

\* faulty variant: the second write carries the status alone
UploadedMessageStatusOnly(chatMessage) == [status |-> UPLOADED]

\* faulty variant: the second write carries the wrong status
UploadedMessageDelivered(chatMessage) == Spread(chatMessage, "status", DELIVERED)

\* { ...chatMessage, status: MessageStatus.UPLOADED }
UploadedMessage(chatMessage) == Spread(chatMessage, "status", UPLOADED)

\* faulty variant: a rejected first set() is ignored and the second set() is made
NextStepNoThrow(pc, settled) ==
    CASE pc = "await1" -> "await2"
      [] pc = "await2" /\ settled = "resolve" -> "done"
      [] OTHER -> "caught"

\* faulty variant: a rejected second set() is made again
NextStepRetry(pc, settled) ==
    CASE pc = "await1" /\ settled = "resolve" -> "await2"
      [] pc = "await2" /\ settled = "resolve" -> "done"
      [] pc = "await2" /\ settled = "reject" -> "await2"
      [] OTHER -> "caught"

\* where sendCommand continues when the set() it awaits settles: the first
\* await falls through to the second set(), a rejection enters the catch block
NextStep(pc, settled) ==
    CASE pc = "await1" /\ settled = "resolve" -> "await2"
      [] pc = "await2" /\ settled = "resolve" -> "done"
      [] OTHER -> "caught"

\* the state of the promise sendCommand returned: the function has no return
\* value and the catch block does not rethrow
Outcome(pc) ==
    IF pc \in {"await1", "await2"} THEN "pending" ELSE "fulfilled"

Awaiting(c) == calls[c].pc \in {"await1", "await2"}

\* the record the set() awaited by call c writes
AwaitedRecord(c) ==
    IF calls[c].pc = "await1" THEN calls[c].chatMessage
    ELSE UploadedMessage(calls[c].chatMessage)

\* a value event for every change of the channel while the listener is on
Notify(data) == IF listener = "on" THEN Append(pending, data) ELSE pending

\* the model holds at most MaxPending undelivered value events
CanNotify == listener = "on" => Len(pending) < MaxPending

\* set(ref, value) on the server: the whole record at the slot is replaced
SetRecord(data, slot, rec) ==
    [k \in (DOMAIN data) \cup {slot} |-> IF k = slot THEN rec ELSE data[k]]

\* call c after the set() it awaits has settled: when it goes on to the second
\* set(), that set() is issued in the same step
Settle(c, settled) ==
    LET next == NextStep(calls[c].pc, settled)
        now == [calls[c] EXCEPT !.pc = next,
                                !.settled = Append(@, settled)]
    IN IF next = "await2"
       THEN [now EXCEPT !.issued = Append(@, UploadedMessage(calls[c].chatMessage))]
       ELSE now

\* sendCommand up to its first await; Date.now() is read once, after the
\* test of the command, and returns now
SendCommand(command, now) ==
    /\ Len(calls) < MaxCalls
    /\ IF ~CommandAccepted(command)
       THEN /\ calls' = Append(calls, [command |-> command, pc |-> "returned"])
            /\ UNCHANGED <<nextKey, clock>>
       ELSE LET pushKey == PushKey
                chatMessage == ChatMessage(pushKey, command, now)
            IN /\ calls' = Append(calls, [command |-> command, pc |-> "await1",
                                          pushKey |-> pushKey,
                                          chatMessage |-> chatMessage,
                                          issued |-> <<chatMessage>>,
                                          settled |-> <<>>])
               /\ nextKey' = nextKey + 1
               /\ clock' = now
    /\ UNCHANGED <<db, agentWrote, agentWrites, listener, pending,
                   chatMessages, handled, disposals, history>>

\* the awaited set() of call c resolves: the record is on the server
SetResolves(c) ==
    /\ c \in 1..Len(calls)
    /\ Awaiting(c)
    /\ CanNotify
    /\ LET newdb == SetRecord(db, calls[c].pushKey, AwaitedRecord(c))
       IN /\ db' = newdb
          /\ pending' = Notify(newdb)
    /\ calls' = [calls EXCEPT ![c] = Settle(c, "resolve")]
    /\ UNCHANGED <<nextKey, clock, agentWrote, agentWrites, listener,
                   chatMessages, handled, disposals, history>>

\* the awaited set() of call c rejects: nothing is written
SetRejects(c) ==
    /\ c \in 1..Len(calls)
    /\ Awaiting(c)
    /\ calls' = [calls EXCEPT ![c] = Settle(c, "reject")]
    /\ UNCHANGED <<db, nextKey, clock, agentWrote, agentWrites, listener,
                   pending, chatMessages, handled, disposals, history>>

----------------------------------------------------------------------------
(* JavaScript strings: a string is the sequence of its characters *)

RECURSIVE Concat(_)
Concat(parts) == IF parts = <<>> THEN <<>> ELSE Head(parts) \o Concat(Tail(parts))

\* the substring of s of length n that starts at position i (from 1)
Slice(s, i, n) == SubSeq(s, i, i + n - 1)

\* p starts at position i of s
StartsAt(s, i, p) ==
    /\ i >= 1
    /\ i + Len(p) - 1 <= Len(s)
    /\ \A k \in 1..Len(p) : s[i + k - 1] = p[k]

\* String.prototype.includes
Includes(s, p) == \E i \in 1..(Len(s) + 1) : StartsAt(s, i, p)

\* the characters \s matches, and those . does not match
\* (a character that has no escape in a string is named by its code point)
WhiteSpace ==
    {" ", "\t", "\n", "\r", "\f", "U+000B", "U+00A0", "U+1680", "U+2000",
     "U+2001", "U+2002", "U+2003", "U+2004", "U+2005", "U+2006", "U+2007",
     "U+2008", "U+2009", "U+200A", "U+2028", "U+2029", "U+202F", "U+205F",
     "U+3000", "U+FEFF"}
LineTerminators == {"\n", "\r", "U+2028", "U+2029"}

\* [\d.-]
CoordinateChars == {"0", "1", "2", "3", "4", "5", "6", "7", "8", "9", ".", "-"}

\* the number of characters of class from position i of s on
RECURSIVE RunLength(_, _, _)
RunLength(s, i, class) ==
    IF i <= Len(s) /\ s[i] \in class THEN 1 + RunLength(s, i + 1, class) ELSE 0

\* String.prototype.trim
RECURSIVE TrimStart(_)
TrimStart(s) ==
    IF s # <<>> /\ Head(s) \in WhiteSpace THEN TrimStart(Tail(s)) ELSE s

RECURSIVE TrimEnd(_)
TrimEnd(s) ==
    IF s # <<>> /\ s[Len(s)] \in WhiteSpace THEN TrimEnd(SubSeq(s, 1, Len(s) - 1)) ELSE s

Trim(s) == TrimEnd(TrimStart(s))

\* String.prototype.split with a separator of one character
RECURSIVE Split(_, _)
Split(s, sep) ==
    IF \A i \in 1..Len(s) : s[i] # sep THEN <<s>>
    ELSE LET i == CHOOSE j \in 1..Len(s) :
                     s[j] = sep /\ \A h \in 1..(j - 1) : s[h] # sep
         IN <<SubSeq(s, 1, i - 1)>> \o Split(SubSeq(s, i + 1, Len(s)), sep)

FirebaseHost ==
    <<"f", "i", "r", "e", "b", "a", "s", "e", "s", "t", "o", "r", "a", "g",
      "e", ".", "g", "o", "o", "g", "l", "e", "a", "p", "i", "s", ".", "c",
      "o", "m">>

RecordingsDir ==
    <<"/", "r", "e", "c", "o", "r", "d", "i", "n", "g", "s", "/">>

RecordingPrefix ==
    <<"r", "e", "c", "o", "r", "d", "i", "n", "g", "_">>

Mp3 ==
    <<".", "m", "p", "3">>

SelfiesDir ==
    <<"/", "s", "e", "l", "f", "i", "e", "s", "/">>

PhotoPrefix ==
    <<"p", "h", "o", "t", "o", "_">>

ImagePrefix ==
    <<"i", "m", "a", "g", "e", "_">>

SelfiePrefix ==
    <<"s", "e", "l", "f", "i", "e", "_">>

Jpg ==
    <<".", "j", "p", "g">>

Jpeg ==
    <<".", "j", "p", "e", "g">>

Png ==
    <<".", "p", "n", "g">>

GoogleMaps ==
    <<"g", "o", "o", "g", "l", "e", ".", "c", "o", "m", "/", "m", "a", "p",
      "s">>

QueryQ ==
    <<"q", "=">>

PathMarker ==
    <<"P", "a", "t", "h", ":">>

----------------------------------------------------------------------------
(* Detection of media URLs, map links and paths in a response *)

isFirebaseUrl(url) == url # <<>> /\ Includes(url, FirebaseHost)

isFirebaseVoiceUrl(url) ==
    /\ isFirebaseUrl(url)
    /\ (Includes(url, RecordingsDir) \/ Includes(url, RecordingPrefix))
    /\ Includes(url, Mp3)

isFirebaseImageUrl(url) ==
    /\ isFirebaseUrl(url)
    /\ \/ Includes(url, SelfiesDir)
       \/ Includes(url, PhotoPrefix)
       \/ Includes(url, ImagePrefix)
       \/ Includes(url, SelfiePrefix)
    /\ (Includes(url, Jpg) \/ Includes(url, Jpeg) \/ Includes(url, Png))

\* /q=([\d.-]+),([\d.-]+)/ matches at position i of url: both groups are
\* greedy, and the comma is not in their class, so each group is the whole
\* run of coordinate characters
MapMatchAt(url, i) ==
    LET n1 == RunLength(url, i + 2, CoordinateChars)
    IN /\ StartsAt(url, i, QueryQ)
       /\ n1 >= 1
       /\ i + 2 + n1 <= Len(url)
       /\ url[i + 2 + n1] = ","
       /\ RunLength(url, i + 3 + n1, CoordinateChars) >= 1

\* url.match(...): the leftmost match, as [lat, lng], or null
MapMatch(url) ==
    IF \E i \in 1..Len(url) : MapMatchAt(url, i)
    THEN LET i == CHOOSE j \in 1..Len(url) :
                      MapMatchAt(url, j) /\ \A h \in 1..(j - 1) : ~MapMatchAt(url, h)
             n1 == RunLength(url, i + 2, CoordinateChars)
             n2 == RunLength(url, i + 3 + n1, CoordinateChars)
         IN [lat |-> Slice(url, i + 2, n1), lng |-> Slice(url, i + 3 + n1, n2)]
    ELSE NullEntry

\* faulty variant: the two groups of the match are taken in the other order
extractMapCoordinatesSwapped(url) ==
    IF url # <<>> /\ Includes(url, GoogleMaps) /\ Includes(url, QueryQ)
          /\ ~IsNull(MapMatch(url))
    THEN [lat |-> MapMatch(url).lng, lng |-> MapMatch(url).lat]
    ELSE NullEntry

extractMapCoordinates(url) ==
    IF url # <<>> /\ Includes(url, GoogleMaps) /\ Includes(url, QueryQ)
    THEN MapMatch(url)
    ELSE NullEntry

\* the number of characters . matches from position i of s on
RECURSIVE LineLength(_, _)
LineLength(s, i) ==
    IF i <= Len(s) /\ s[i] \notin LineTerminators THEN 1 + LineLength(s, i + 1) ELSE 0

\* /Path:\s*(.+)/ matches at position i of text with \s* taking k characters
PathMatchAt(text, i, k) ==
    /\ StartsAt(text, i, PathMarker)
    /\ k <= RunLength(text, i + Len(PathMarker), WhiteSpace)
    /\ LineLength(text, i + Len(PathMarker) + k) >= 1

\* the white space after the marker at position i of text, which \s* can take
MarkerSpace(text, i) == RunLength(text, i + Len(PathMarker), WhiteSpace)

\* pathMatch[1]: the group of the leftmost match, \s* and .+ greedy; the
\* empty string when there is no match
PathMatch(text) ==
    LET Matches(j) == \E k \in 0..MarkerSpace(text, j) : PathMatchAt(text, j, k)
    IN IF \E j \in 1..Len(text) : Matches(j)
       THEN LET i == CHOOSE j \in 1..Len(text) :
                         Matches(j) /\ \A h \in 1..(j - 1) : ~Matches(h)
                k == CHOOSE n \in 0..MarkerSpace(text, i) :
                         /\ PathMatchAt(text, i, n)
                         /\ \A m \in (n + 1)..MarkerSpace(text, i) :
                                ~PathMatchAt(text, i, m)
                from == i + Len(PathMarker) + k
            IN Slice(text, from, LineLength(text, from))
       ELSE <<>>

\* the callback of coordPairs.map: a point, or null
PairCoordinates(pair) ==
    LET parts == Split(pair, ",")
    IN IF Len(parts) >= 2 /\ parts[1] # <<>> /\ parts[2] # <<>>
       THEN [lat |-> Trim(parts[1]), lng |-> Trim(parts[2])]
       ELSE NullEntry

\* the points of the path; the code returns null where this is <<>>, and
\* never returns an empty array
extractPathCoordinates(text) ==
    IF text # <<>> /\ Includes(text, PathMarker) /\ PathMatch(text) # <<>>
    THEN LET coordPairs == Split(Trim(PathMatch(text)), "|")
             mapped == [j \in 1..Len(coordPairs) |-> PairCoordinates(coordPairs[j])]
             coordinates == SelectSeq(mapped, LAMBDA c : ~IsNull(c))
         IN IF Len(coordPairs) >= 2 /\ Len(coordinates) >= 2
            THEN coordinates
            ELSE <<>>
    ELSE <<>>

VoiceNote(url) == [variant |-> "VoiceNote", url |-> url]
Image(url) == [variant |-> "Image", url |-> url]
GenericAttachment(url) == [variant |-> "GenericAttachment", url |-> url]
Path(points) == [variant |-> "Path", points |-> points]
SinglePoint(coordinates) ==
    [variant |-> "SinglePoint", lat |-> coordinates.lat, lng |-> coordinates.lng]
\* faulty variant: the text of the response is not shown
PlainTextEmpty(text) == [variant |-> "PlainText", text |-> <<>>]

PlainText(text) == [variant |-> "PlainText", text |-> text]

\* faulty variant: the test for any attachment comes first
ClassifyAttachmentFirst(response) ==
    IF isFirebaseUrl(response) THEN GenericAttachment(response)
    ELSE IF isFirebaseVoiceUrl(response) THEN VoiceNote(response)
    ELSE IF isFirebaseImageUrl(response) THEN Image(response)
    ELSE IF extractPathCoordinates(response) # <<>>
         THEN Path(extractPathCoordinates(response))
    ELSE IF ~IsNull(extractMapCoordinates(response))
         THEN SinglePoint(extractMapCoordinates(response))
    ELSE PlainText(response)

\* faulty variant: the test for a map link comes before the test for a path
ClassifyMapLinkFirst(response) ==
    IF isFirebaseVoiceUrl(response) THEN VoiceNote(response)
    ELSE IF isFirebaseImageUrl(response) THEN Image(response)
    ELSE IF isFirebaseUrl(response) THEN GenericAttachment(response)
    ELSE IF ~IsNull(extractMapCoordinates(response))
         THEN SinglePoint(extractMapCoordinates(response))
    ELSE IF extractPathCoordinates(response) # <<>>
         THEN Path(extractPathCoordinates(response))
    ELSE PlainText(response)

\* the content of the response bubble: voice note, image, attachment link,
\* path, map or text, in the order of the conditional chain
Classify(response) ==
    IF isFirebaseVoiceUrl(response) THEN VoiceNote(response)
    ELSE IF isFirebaseImageUrl(response) THEN Image(response)
    ELSE IF isFirebaseUrl(response) THEN GenericAttachment(response)
    ELSE IF extractPathCoordinates(response) # <<>>
         THEN Path(extractPathCoordinates(response))
    ELSE IF ~IsNull(extractMapCoordinates(response))
         THEN SinglePoint(extractMapCoordinates(response))
    ELSE PlainText(response)

\* the response bubble is rendered for a truthy msg.response only
HasBubble(msg) == Has(msg, "response") /\ msg.response # <<>>

\* what is rendered for a message: the content of its response bubble, or no
\* bubble at all
NoBubble == [variant |-> "none"]

Bubble(msg) == IF HasBubble(msg) THEN Classify(msg.response) ELSE NoBubble

----------------------------------------------------------------------------
(* The remote device: "response, responseTimestamp, and updated status     *)
(* will be added by the device"                                            *)

\* responses of the device
OkText == <<"o", "k">>

MapLink ==
    <<"h", "t", "t", "p", "s", ":", "/", "/", "w", "w", "w", ".">> \o GoogleMaps
        \o <<"?">> \o QueryQ \o <<"3", "1", ".", "0", "3", ",", "7", "4", ".", "2", "6">>

Responses == {OkText}

AgentUpdate(slot, rec) ==
    /\ agentWrites < MaxAgentWrites
    /\ CanNotify
    /\ ~IsNull(db[slot])
    /\ LET newdb == SetRecord(db, slot, rec)
       IN /\ db' = newdb
          /\ pending' = Notify(newdb)
    /\ agentWrote' = agentWrote \cup {slot}
    /\ agentWrites' = agentWrites + 1
    /\ UNCHANGED <<nextKey, clock, calls, listener, chatMessages, handled, disposals, history>>

\* the device marks the command delivered
AgentDelivers(slot) ==
    /\ slot \in DOMAIN db
    /\ Has(db[slot], "status") /\ db[slot].status # DELIVERED
    /\ AgentUpdate(slot, Spread(db[slot], "status", DELIVERED))

\* the device answers the command
AgentResponds(slot, response) ==
    /\ slot \in DOMAIN db
    /\ ~Has(db[slot], "response")
    /\ AgentUpdate(slot, Spread(Spread(db[slot], "response", response),
                                "responseTimestamp", clock))

\* the device writes the response alone, without a responseTimestamp
AgentRespondsBare(slot, response) ==
    /\ slot \in DOMAIN db
    /\ ~Has(db[slot], "response")
    /\ AgentUpdate(slot, Spread(db[slot], "response", response))

----------------------------------------------------------------------------
(* The chat listener effect *)

\* onValue(chatRef, handleValue): the listener gets the current value first
Subscribe ==
    /\ listener = "init"
    /\ listener' = "on"
    /\ pending' = Append(pending, db)
    /\ UNCHANGED <<db, nextKey, clock, calls, agentWrote, agentWrites,
                   chatMessages, handled, disposals, history>>

\* faulty variant: the new array is appended to the state instead of replacing it
SetChatMessagesAppended(previous, sortedMessages) == previous \o sortedMessages

\* setChatMessages(sortedMessages): the state is replaced by the new array
SetChatMessages(previous, sortedMessages) == sortedMessages

\* a value event reaches handleValue, which tests the snapshot only: an event
\* raised while the listener was registered is handled in the same way when
\* it comes in after the cleanup, or it never comes in
Deliver ==
    /\ pending # <<>>
    /\ chatMessages' = SetChatMessages(chatMessages, HandleValue(Head(pending)))
    /\ handled' = <<Head(pending)>>
    /\ history' = Append(history, Len(chatMessages'))
    /\ pending' = Tail(pending)
    /\ UNCHANGED <<db, nextKey, clock, calls, agentWrote, agentWrites,
                   listener, disposals>>

\* faulty variant: off is called for another event type and removes nothing
OffOtherEvent(registered) == registered

\* off(chatRef, 'value'): no 'value' callback stays registered on the channel
Off(registered) == "off"

\* the effect's cleanup, which may be called again: off(chatRef, 'value')
Teardown ==
    /\ listener # "init"
    /\ disposals < MaxDisposals
    /\ listener' = Off(listener)
    /\ disposals' = disposals + 1
    /\ UNCHANGED <<db, nextKey, clock, calls, agentWrote, agentWrites,
                   pending, chatMessages, handled, history>>

----------------------------------------------------------------------------
(* The dashboard with one channel, the operator and the device *)

\* a record an earlier session left in the channel
LegacyRecords ==
    {[key |-> 1, command |-> "GetLocation", commandTimestamp |-> 1,
      status |-> UPLOADED]}

LegacySlots == {1}

\* the channel when the dashboard opens: empty, or holding the legacy record
InitialChannels ==
    {[k \in {} |-> NullEntry]} \cup
    {[k \in LegacySlots |-> r] : r \in LegacyRecords}

Init ==
    /\ db \in InitialChannels
    /\ nextKey = Cardinality(LegacySlots) + 1
    /\ clock = 1
    /\ calls = <<>>
    /\ agentWrote = {}
    /\ agentWrites = 0
    /\ listener = "init"
    /\ pending = <<>>
    /\ chatMessages = <<>>
    /\ handled = <<>>
    /\ disposals = 0
    /\ history = <<>>

\* the arguments of the sendCommand calls in the specification of the whole
\* dashboard: the commands of the first MaxSessionCommands entries of the
\* table, and null
SessionCommands == FirstCommands(MaxSessionCommands) \cup {NullCommand}

\* the dashboard, the operator and the device; React runs the effect's
\* cleanup once, when the component unmounts
Next ==
    \/ \E command \in SessionCommands, now \in Instants :
           Len(calls) < MaxSessionCalls /\ SendCommand(command, now)
    \/ \E c \in 1..MaxCalls : SetResolves(c)
    \/ \E c \in 1..MaxCalls : SetRejects(c)
    \/ \E slot \in DOMAIN db : AgentDelivers(slot)
    \/ \E slot \in DOMAIN db, response \in Responses : AgentResponds(slot, response)
    \/ \E slot \in DOMAIN db, response \in Responses : AgentRespondsBare(slot, response)
    \/ Subscribe
    \/ Deliver
    \/ listener = "on" /\ Teardown

Spec == Init /\ [][Next]_vars

\* the arguments of the sendCommand calls in the specification of the
\* dispatcher: the commands of the first MaxCommands entries of the table,
\* and null
DispatchCommands == FirstCommands(MaxCommands) \cup {NullCommand}

\* the dispatcher and the device, the chat listener not yet set up
NextDispatch ==
    \/ \E command \in DispatchCommands, now \in Instants :
           SendCommand(command, now)
    \/ \E c \in 1..MaxCalls : SetResolves(c)
    \/ \E c \in 1..MaxCalls : SetRejects(c)
    \/ \E slot \in DOMAIN db : AgentDelivers(slot)
    \/ \E slot \in DOMAIN db, response \in Responses : AgentResponds(slot, response)

SpecDispatch == Init /\ [][NextDispatch]_vars

----------------------------------------------------------------------------
(* The chat listener over any stored channel *)

\* the property sets a stored record can carry: a key of its own, an empty
\* key or none; commandTimestamp absent or any time from 0; the legacy
\* timestamp absent or any time from 1
KeyChoices == {{}, {<<"key", 0>>}, {<<"key", 9>>}}

TimeChoices(f, from) == {{}} \cup {{<<f, t>>} : t \in from..MaxTime}

\* the record with the given property/value pairs
RecordOf(pairs) ==
    [f \in {p[1] : p \in pairs} |-> (CHOOSE p \in pairs : p[1] = f)[2]]

StoredRecords ==
    {RecordOf(k \cup c \cup t \cup {<<"command", "GetLocation">>, <<"status", UPLOADED>>}) :
        k \in KeyChoices, c \in TimeChoices("commandTimestamp", 0),
        t \in TimeChoices("timestamp", 1)}

StoredChannels ==
    UNION {[S -> StoredRecords \cup {NullEntry}] : S \in SUBSET (1..MaxSlots)}

\* a record is removed from the channel by another client
RemoveRecord(slot) ==
    /\ slot \in DOMAIN db
    /\ CanNotify
    /\ LET newdb == [k \in (DOMAIN db) \ {slot} |-> db[k]]
       IN /\ db' = newdb
          /\ pending' = Notify(newdb)
    /\ UNCHANGED <<nextKey, clock, calls, agentWrote, agentWrites, listener,
                   chatMessages, handled, disposals, history>>

InitProj ==
    /\ db \in StoredChannels
    /\ nextKey = MaxSlots + 1
    /\ clock = 1
    /\ calls = <<>>
    /\ agentWrote = {}
    /\ agentWrites = 0
    /\ listener = "init"
    /\ pending = <<>>
    /\ chatMessages = <<>>
    /\ handled = <<>>
    /\ disposals = 0
    /\ history = <<>>

NextProj ==
    \/ Subscribe
    \/ Deliver
    \/ listener = "on" /\ Teardown
    \/ \E slot \in DOMAIN db : RemoveRecord(slot)

SpecProj == InitProj /\ [][NextProj]_vars

\* the chat listener with a cleanup that is called again and again
NextTeardown ==
    \/ Subscribe
    \/ Deliver
    \/ Teardown

SpecTeardown == InitProj /\ [][NextTeardown]_vars

----------------------------------------------------------------------------
(* The response bubble over responses put together from parts *)

HostUrl == <<"h", "t", "t", "p", "s", ":", "/", "/">> \o FirebaseHost \o <<"/", "o">>

PathOfTwo ==
    PathMarker \o <<" ", "1", ".", "0", ",", "2", ".", "0", "|", "3", ".", "0", ",", "4", ".", "0">>

Fragments ==
    {HostUrl, RecordingsDir, RecordingPrefix, Mp3, SelfiesDir, PhotoPrefix,
     Jpg, Jpeg, Png, PathOfTwo, MapLink, OkText}

ResponseStrings ==
    {Concat(parts) : parts \in UNION {[1..n -> Fragments] : n \in 0..MaxFragments}}

\* a record the device has answered
AnsweredRecord(response) ==
    [key |-> 1, command |-> "GetLocation", commandTimestamp |-> 1,
     status |-> DELIVERED, response |-> response, responseTimestamp |-> 1]

InitClassify ==
    /\ db \in {[k \in {1} |-> AnsweredRecord(r)] : r \in ResponseStrings}
    /\ nextKey = 2
    /\ clock = 1
    /\ calls = <<>>
    /\ agentWrote = {}
    /\ agentWrites = 0
    /\ listener = "init"
    /\ pending = <<>>
    /\ chatMessages = <<>>
    /\ handled = <<>>
    /\ disposals = 0
    /\ history = <<>>

NextClassify ==
    \/ Subscribe
    \/ Deliver
    \/ listener = "on" /\ Teardown

SpecClassify == InitClassify /\ [][NextClassify]_vars

----------------------------------------------------------------------------
(* The response bubble over path strings and map links *)

\* the texts between the '|' of a path string: two well-formed pairs, a
\* pair of one token, of three tokens, with a blank token, with an empty
\* token, with tokens that are not numbers, and a well-formed pair with a
\* vertical tab in front of its second token
PairTexts ==
    {<<"1", ".", "0", ",", "2", ".", "0">>,
     <<"3", ".", "0", ",", "4", ".", "0">>,
     <<"5", ".", "0">>,
     <<"5", ".", "0", ",", "6", ".", "0", ",", "7", ".", "0">>,
     <<" ", ",", "6", ".", "0">>,
     <<",", "6", ".", "0">>,
     <<"a", ",", "b">>,
     <<"7", ".", "0", ",", "U+000B", "8", ".", "0">>}

RECURSIVE Join(_, _)
Join(parts, sep) ==
    IF Len(parts) = 0 THEN <<>>
    ELSE IF Len(parts) = 1 THEN parts[1]
    ELSE parts[1] \o sep \o Join(Tail(parts), sep)

\* "Path: " and up to MaxPairs texts joined by '|', alone, followed by a
\* map link, or followed by a line separator and more text
PathStrings ==
    {PathMarker \o <<" ">> \o Join(pairs, <<"|">>) \o suffix :
        pairs \in UNION {[1..n -> PairTexts] : n \in 1..MaxPairs},
        suffix \in {<<>>, <<" ">> \o MapLink, <<"U+2028", "x">>}}

\* the numbers of the map links
NumberTexts ==
    {<<"1", ".", "0">>, <<"-", "2", ".", "5">>, <<"3", "1", ".", "0", "3">>}

\* the part of a map link in front of ?q=
LinkPrefixes ==
    {<<"h", "t", "t", "p", "s", ":", "/", "/", "w", "w", "w", ".">> \o GoogleMaps,
     <<"h", "t", "t", "p", "s", ":", "/", "/", "m", "a", "p", "s">>}

LinkStrings ==
    {prefix \o <<"?">> \o QueryQ \o lat \o <<",">> \o lng :
        prefix \in LinkPrefixes, lat \in NumberTexts, lng \in NumberTexts}

InitCoordinates ==
    /\ db \in {[k \in {1} |-> AnsweredRecord(r)] : r \in PathStrings \cup LinkStrings}
    /\ nextKey = 2
    /\ clock = 1
    /\ calls = <<>>
    /\ agentWrote = {}
    /\ agentWrites = 0
    /\ listener = "init"
    /\ pending = <<>>
    /\ chatMessages = <<>>
    /\ handled = <<>>
    /\ disposals = 0
    /\ history = <<>>

SpecCoordinates == InitCoordinates /\ [][NextClassify]_vars

----------------------------------------------------------------------------
(* One GetLocation command answered with a map link; the SDK delivers every *)
(* value event of a registered listener                                     *)

NextEndToEnd ==
    \/ \E now \in Instants :
           Len(calls) < MaxSessionCalls /\ SendCommand("GetLocation", now)
    \/ \E c \in 1..MaxCalls : SetResolves(c)
    \/ \E c \in 1..MaxCalls : SetRejects(c)
    \/ \E slot \in DOMAIN db : AgentResponds(slot, MapLink)
    \/ Subscribe
    \/ Deliver
    \/ listener = "on" /\ Teardown

\* the steps that take the oldest value event off the queue: the Deliver steps
Delivery == listener = "on" /\ pending # <<>> /\ pending' = Tail(pending)

SpecEndToEnd == Init /\ [][NextEndToEnd]_vars /\ WF_pending(Delivery)

----------------------------------------------------------------------------
(* Properties *)

Accepted == {c \in 1..Len(calls) : calls[c].pc # "returned"}

FirstWriteDone(c) == Len(calls[c].settled) >= 1 /\ calls[c].settled[1] = "resolve"

SecondWriteDone(c) == Len(calls[c].settled) >= 2 /\ calls[c].settled[2] = "resolve"

WriteRejected(c) == \E i \in 1..Len(calls[c].settled) : calls[c].settled[i] = "reject"

Emitted(key) == {i \in 1..Len(chatMessages) : chatMessages[i].key = key}

\* C1 (as claimed): from one emission of the chat listener to the next, the
\* status of a message never moves back in the order
\* BEFORE_UPLOADED < UPLOADED < DELIVERED.
C1_StatusNeverRegresses ==
    [][\A i \in 1..Len(chatMessages), j \in 1..Len(chatMessages') :
          chatMessages[i].key = chatMessages'[j].key
          => StatusRank(chatMessages'[j].status) >= StatusRank(chatMessages[i].status)]_vars

\* C2 (as claimed): once an emission shows a message with a response, every
\* later emission that contains the message shows a response too.
C2_ResponseNeverLost ==
    [][\A i \in 1..Len(chatMessages), j \in 1..Len(chatMessages') :
          (chatMessages[i].key = chatMessages'[j].key /\ Has(chatMessages[i], "response"))
          => Has(chatMessages'[j], "response")]_vars

\* C3: an accepted sendCommand call writes BEFORE_UPLOADED at its push key
\* first; it writes UPLOADED at the same key only after that first write has
\* resolved, it does so whenever the first write resolved, and it makes no
\* second write when the first one was rejected.
C3_PendingThenSubmitted ==
    \A c \in Accepted :
        LET call == calls[c]
        IN /\ Len(call.issued) \in {1, 2}
           /\ call.issued[1].status = BEFORE_UPLOADED
           /\ call.issued[1].key = call.pushKey
           /\ Len(call.issued) = 2 <=> FirstWriteDone(c)
           /\ Len(call.issued) = 2 =>
                 /\ call.issued[2].status = UPLOADED
                 /\ call.issued[2].key = call.pushKey
           /\ FirstWriteDone(c)
                 => /\ call.pushKey \in DOMAIN db
                    /\ db[call.pushKey].key = call.pushKey

C3_Witness ==
    \E c \in Accepted : calls[c].pc = "done" /\ db[calls[c].pushKey].status = UPLOADED

\* C4: a sendCommand call with the null command allocates no push key and
\* leaves the channel as it is: the call returns at once, and no record with
\* that command is ever stored.
C4_NullCommandIsNoOp ==
    [][(Len(calls') = Len(calls) + 1 /\ calls'[Len(calls')].command = NullCommand)
        => /\ db' = db
           /\ nextKey' = nextKey
           /\ pending' = pending
           /\ calls'[Len(calls')].pc = "returned"
           /\ \A k \in DOMAIN db' : db'[k].command # NullCommand]_vars

C4_Witness ==
    \E c \in 1..Len(calls) :
        /\ calls[c].command = NullCommand
        /\ calls[c].pc = "returned"
        /\ DOMAIN db # {}

\* C5: every accepted call has a push key of its own, different from the keys
\* of the records already stored and of every other call; a call makes at
\* most two writes, none after a rejected one; and the channel holds one
\* more record for every call whose first write resolved.
C5_OneIdentityPerDispatch ==
    /\ \A c \in Accepted :
          /\ calls[c].pushKey \notin LegacySlots
          /\ \A d \in Accepted : d # c => calls[d].pushKey # calls[c].pushKey
          /\ Len(calls[c].issued) <= 2
          /\ Len(calls[c].settled) <= Len(calls[c].issued)
          /\ \A i \in 1..Len(calls[c].settled) :
                calls[c].settled[i] = "reject" => Len(calls[c].issued) = i
    /\ Cardinality((DOMAIN db) \ LegacySlots)
          = Cardinality({c \in Accepted : FirstWriteDone(c)})

C5_Witness ==
    /\ Cardinality({c \in Accepted : calls[c].pc = "done"}) = 2
    /\ Cardinality((DOMAIN db) \ LegacySlots) = 2

\* C6: no record sendCommand writes carries response or responseTimestamp or
\* the status DELIVERED; a stored record shows one of them only if the
\* remote device has written to its slot.
C6_DispatcherWritesNoResponse ==
    /\ \A c \in Accepted : \A i \in 1..Len(calls[c].issued) :
          /\ ~Has(calls[c].issued[i], "response")
          /\ ~Has(calls[c].issued[i], "responseTimestamp")
          /\ calls[c].issued[i].status # DELIVERED
    /\ \A k \in DOMAIN db :
          (Has(db[k], "response") \/ Has(db[k], "responseTimestamp")
             \/ db[k].status = DELIVERED)
          => k \in agentWrote

C6_Witness ==
    \E c \in Accepted :
        /\ calls[c].pc = "done"
        /\ Has(db[calls[c].pushKey], "response")
        /\ calls[c].pushKey \in agentWrote

\* C7 (as claimed): when a set() of sendCommand is rejected, the promise the
\* call returned does not settle the way it does after a successful dispatch.
C7_WriteFailurePropagated ==
    \A c \in Accepted : WriteRejected(c) => Outcome(calls[c].pc) # Outcome("done")

\* C8: when the first write of a call has resolved and the second has not
\* (it was rejected or is still awaited), and the remote device has not
\* written to the slot, the stored record is the BEFORE_UPLOADED record of the
\* call, and every emission that shows the message shows it BEFORE_UPLOADED.
C8_StaysPending ==
    \A c \in Accepted :
        (FirstWriteDone(c) /\ ~SecondWriteDone(c) /\ calls[c].pushKey \notin agentWrote)
        => /\ calls[c].pushKey \in DOMAIN db
           /\ db[calls[c].pushKey] = calls[c].issued[1]
           /\ db[calls[c].pushKey].status = BEFORE_UPLOADED
           /\ \A i \in Emitted(calls[c].pushKey) :
                 chatMessages[i].status = BEFORE_UPLOADED

C8_Witness ==
    \E c \in Accepted :
        /\ calls[c].settled = <<"resolve", "reject">>
        /\ calls[c].pushKey \notin agentWrote
        /\ db[calls[c].pushKey].status = BEFORE_UPLOADED
        /\ Emitted(calls[c].pushKey) # {}

\* the sort key as the claim states it: commandTimestamp when the record
\* carries it, otherwise the legacy timestamp when it carries that, otherwise 0
StatedSortKey(r) ==
    IF Has(r, "commandTimestamp") THEN r.commandTimestamp
    ELSE IF Has(r, "timestamp") THEN r.timestamp
    ELSE 0

\* C9 (as claimed): every emission is in non-decreasing order of the stated
\* sort key, a record that carries commandTimestamp being keyed by it.
C9_SortedByStatedKey ==
    \A i, j \in 1..Len(chatMessages) :
        i < j => StatedSortKey(chatMessages[i]) <= StatedSortKey(chatMessages[j])

\* the entries of a snapshot that are records
WithoutNullEntries(data) ==
    [k \in {x \in DOMAIN data : ~IsNull(data[x])} |-> data[k]]

\* C10 (as claimed): a snapshot with an entry that cannot be normalized is
\* emitted without that entry, every other record in sorted order.
C10_MalformedRecordDropped ==
    handled # <<>> => chatMessages = HandleValue(WithoutNullEntries(handled[1]))

\* the last emission but one had n messages or more
PreviousEmissionAtLeast(n) ==
    Len(history) >= 2 /\ history[Len(history) - 1] >= n

\* C11 (as claimed): once the cleanup of the listener effect has run,
\* handleValue makes no further setChatMessages call: the state, the last
\* handled snapshot and the list of emissions stay as they are, whatever was
\* undelivered when the cleanup ran and whatever is written later.
C11_NoEmissionAfterTeardown ==
    [][disposals >= 1
        => /\ chatMessages' = chatMessages
           /\ handled' = handled
           /\ history' = history]_vars

\* C12: every emission is the ordering of the snapshot handled last and of
\* nothing else: each emitted message is the normalized record of a slot of
\* that snapshot, and there are no more messages than slots.
C12_EmissionFromLatestSnapshot ==
    handled # <<>> =>
        /\ chatMessages = HandleValue(handled[1])
        /\ Len(chatMessages) <= Cardinality(DOMAIN handled[1])
        /\ \A i \in 1..Len(chatMessages) :
              \E k \in DOMAIN handled[1] :
                  /\ ~IsNull(handled[1][k])
                  /\ chatMessages[i] = Normalize(k, handled[1][k])

C12_Witness ==
    /\ PreviousEmissionAtLeast(2)
    /\ Len(chatMessages) = 1
    /\ Cardinality(DOMAIN handled[1]) = 1

\* C13 (as claimed): every emitted message has a response exactly when it has
\* a responseTimestamp.
C13_ResponsePaired ==
    \A i \in 1..Len(chatMessages) :
        Has(chatMessages[i], "response") <=> Has(chatMessages[i], "responseTimestamp")

\* an ordered sequence as raw records again: position i is the storage slot
AsRecords(messages) == [i \in 1..Len(messages) |-> messages[i]]

\* C15: ordering the output of an ordering again gives the same sequence.
C15_OrderingIdempotent ==
    handled # <<>> => HandleValue(AsRecords(chatMessages)) = chatMessages

C15_Witness ==
    /\ handled # <<>>
    /\ Len(chatMessages) = 2
    /\ chatMessages # Messages(handled[1])
    /\ SortTime(chatMessages[1]) < SortTime(chatMessages[2])

\* C16: a record stored without a key (or with an empty one) is emitted with
\* the key of its storage slot and is otherwise unchanged, and a record
\* stored with a key of its own is emitted as it is.
C16_FallbackKey ==
    (handled # <<>> /\ ~Throws(handled[1])) =>
        \A k \in DOMAIN handled[1] :
            LET r == handled[1][k]
            IN \E i \in 1..Len(chatMessages) :
                  IF Has(r, "key") /\ r.key # 0
                  THEN chatMessages[i] = r
                  ELSE /\ chatMessages[i].key = k
                       /\ DOMAIN chatMessages[i] = (DOMAIN r) \cup {"key"}
                       /\ \A f \in (DOMAIN r) \ {"key"} : chatMessages[i][f] = r[f]

C16_Witness ==
    /\ handled # <<>>
    /\ Len(chatMessages) = 2
    /\ \E k \in DOMAIN handled[1] : ~Has(handled[1][k], "key")
    /\ \E k \in DOMAIN handled[1] : Has(handled[1][k], "key") /\ handled[1][k].key = 9
    /\ \E i \in 1..2 : chatMessages[i].key = 9
    /\ \E i \in 1..2 : chatMessages[i].key \in DOMAIN handled[1]

\* C17: for an empty snapshot handleValue emits the empty sequence, also
\* when the emission before it was not empty.
C17_EmptySnapshotEmitsEmpty ==
    (handled # <<>> /\ DOMAIN handled[1] = {}) =>
        /\ chatMessages = <<>>
        /\ history[Len(history)] = 0

C17_Witness ==
    /\ PreviousEmissionAtLeast(1)
    /\ handled # <<>>
    /\ DOMAIN handled[1] = {}
    /\ chatMessages = <<>>

\* C18: after the first call of the cleanup no listener is registered, and
\* every further call of the cleanup changes nothing.
C18_TeardownIdempotent ==
    [][/\ disposals' >= 1 => listener' = "off"
       /\ (disposals >= 1 /\ disposals' # disposals)
             => UNCHANGED <<db, nextKey, clock, calls, agentWrote, agentWrites,
                            listener, pending, chatMessages, handled, history>>]_vars

C18_Witness ==
    /\ disposals >= 2
    /\ listener = "off"

\* the calls whose two writes have both resolved
Dispatched == {c \in Accepted : SecondWriteDone(c)}

\* the device's answer to call c is stored at the call's push key
Answered(c, response) ==
    /\ c \in Dispatched
    /\ Has(db[calls[c].pushKey], "response")
    /\ db[calls[c].pushKey].response = response

\* the emitted message of call c carries the response, and the response
\* bubble shows it as content
ShownAs(c, response, content) ==
    /\ c \in Accepted
    /\ \E i \in Emitted(calls[c].pushKey) :
          /\ HasBubble(chatMessages[i])
          /\ chatMessages[i].response = response
          /\ Classify(chatMessages[i].response) = content

ClaimedPoint == [lat |-> <<"3", "1", ".", "0", "3">>, lng |-> <<"7", "4", ".", "2", "6">>]

\* C14: a GetLocation call whose writes succeeded has made two writes, the
\* record at its push key and then the same record with status UPLOADED;
\* once the device has answered it with the map link, the registered
\* listener eventually emits the message with that response (unless the
\* listener is removed first), and the bubble of every emitted message with
\* that response is the map of the point 31.03, 74.26.
C14_EndToEnd ==
    /\ [](\A c \in Dispatched :
             /\ calls[c].command = "GetLocation"
             /\ Len(calls[c].issued) = 2
             /\ calls[c].issued[1] = ChatMessage(calls[c].pushKey, "GetLocation",
                                                 calls[c].issued[1].commandTimestamp)
             /\ calls[c].issued[2] = UploadedMessage(calls[c].issued[1])
             /\ calls[c].issued[2].status = UPLOADED)
    /\ \A c \in 1..MaxSessionCalls :
          (listener = "on" /\ c <= Len(calls) /\ Answered(c, MapLink))
             ~> (listener = "off"
                    \/ (c <= Len(calls) /\ ShownAs(c, MapLink, SinglePoint(ClaimedPoint))))
    /\ [](\A i \in 1..Len(chatMessages) :
             (HasBubble(chatMessages[i]) /\ chatMessages[i].response = MapLink)
                => Classify(chatMessages[i].response) = SinglePoint(ClaimedPoint))

C14_Witness ==
    /\ listener = "on"
    /\ \E c \in Dispatched :
          /\ Answered(c, MapLink)
          /\ ShownAs(c, MapLink, SinglePoint(ClaimedPoint))

\* the patterns of a voice note and of an image
RecordingPattern(r) ==
    (Includes(r, RecordingsDir) \/ Includes(r, RecordingPrefix)) /\ Includes(r, Mp3)

ImagePattern(r) ==
    /\ \/ Includes(r, SelfiesDir)
       \/ Includes(r, PhotoPrefix)
       \/ Includes(r, ImagePrefix)
       \/ Includes(r, SelfiePrefix)
    /\ (Includes(r, Jpg) \/ Includes(r, Jpeg) \/ Includes(r, Png))

\* the responses of the emitted messages that have a bubble
ShownResponses ==
    {chatMessages[i].response : i \in {j \in 1..Len(chatMessages) : HasBubble(chatMessages[j])}}

\* C19: a shown response that contains the storage host is a voice note
\* when the recording pattern matches, else an image when the image pattern
\* matches, else an attachment link, and nothing else.
C19_AttachmentPrecedence ==
    \A r \in ShownResponses :
        Includes(r, FirebaseHost) =>
            /\ Classify(r) = IF RecordingPattern(r) THEN VoiceNote(r)
                             ELSE IF ImagePattern(r) THEN Image(r)
                             ELSE GenericAttachment(r)
            /\ Classify(r).variant \notin {"Path", "SinglePoint", "PlainText"}

C19_Witness ==
    \E r \in ShownResponses :
        /\ Includes(r, FirebaseHost)
        /\ ImagePattern(r)
        /\ ~RecordingPattern(r)
        /\ Classify(r) = Image(r)

\* C20: a shown response without the storage host from which both a path
\* and a map point can be extracted is shown as the path.
C20_PathBeforeSinglePoint ==
    \A r \in ShownResponses :
        (/\ ~Includes(r, FirebaseHost)
         /\ extractPathCoordinates(r) # <<>>
         /\ ~IsNull(extractMapCoordinates(r)))
            => Classify(r) = Path(extractPathCoordinates(r))

C20_Witness ==
    \E r \in ShownResponses :
        /\ ~Includes(r, FirebaseHost)
        /\ Len(extractPathCoordinates(r)) >= 2
        /\ ~IsNull(extractMapCoordinates(r))
        /\ Classify(r).variant = "Path"

\* the call whose awaited set() settles in the step
Settling(c) ==
    /\ c \in Accepted
    /\ Len(calls'[c].settled) = Len(calls[c].settled) + 1

\* C26: two sendCommand calls in flight together have different push keys
\* and write records that name their own key; a set() of one call changes
\* the channel at that call's push key only; and when the writes of a call
\* have all resolved and the device has not written to its slot, the slot
\* holds the call's record with status UPLOADED and the call's command.
C26_InterleavedCallsKeepApart ==
    /\ [](\A c \in Accepted :
             /\ \A d \in Accepted : d # c => calls[d].pushKey # calls[c].pushKey
             /\ \A i \in 1..Len(calls[c].issued) :
                   /\ calls[c].issued[i].key = calls[c].pushKey
                   /\ calls[c].issued[i].command = calls[c].command
             /\ (SecondWriteDone(c) /\ calls[c].pushKey \notin agentWrote)
                   => /\ db[calls[c].pushKey].status = UPLOADED
                      /\ db[calls[c].pushKey].command = calls[c].command
                      /\ db[calls[c].pushKey].key = calls[c].pushKey)
    /\ [][\A c \in 1..Len(calls) :
             Settling(c) =>
                \A k \in (DOMAIN db') \ {calls[c].pushKey} :
                    k \in DOMAIN db /\ db'[k] = db[k]]_vars

C26_Witness ==
    /\ Len(calls) = 2
    /\ calls[1].pc = "await2" /\ calls[2].pc = "await2"
    /\ calls[1].command # calls[2].command
    /\ \A c \in 1..2 :
          /\ db[calls[c].pushKey].command = calls[c].command
          /\ db[calls[c].pushKey].key = calls[c].pushKey

\* the place a stable sort by SortTime gives to message i of messages
StablePlace(messages, i) ==
    1 + Cardinality({j \in 1..Len(messages) : SortTime(messages[j]) < SortTime(messages[i])})
      + Cardinality({j \in 1..(i - 1) : SortTime(messages[j]) = SortTime(messages[i])})

\* C27: the emission is the stable sort of the snapshot's messages: messages
\* with equal sort times keep the order of their storage slots.
C27_SortIsStable ==
    (handled # <<>> /\ ~Throws(handled[1])) =>
        LET messages == Messages(handled[1])
        IN /\ Len(chatMessages) = Len(messages)
           /\ \A i \in 1..Len(messages) :
                 chatMessages[StablePlace(messages, i)] = messages[i]

C27_Witness ==
    /\ handled # <<>>
    /\ Len(chatMessages) = 2
    /\ SortTime(chatMessages[1]) = SortTime(chatMessages[2])
    /\ DOMAIN handled[1] = {1, 2}
    /\ chatMessages[1].key = 1
    /\ chatMessages[2].key = 2

\* C28: for a non-empty snapshot without a null entry the emission is a
\* permutation of the records: one message for every storage slot, with the
\* fields of the record of that slot, the key apart.
C28_EmissionIsPermutation ==
    (handled # <<>> /\ DOMAIN handled[1] # {} /\ ~Throws(handled[1])) =>
        /\ Len(chatMessages) = Cardinality(DOMAIN handled[1])
        /\ \E slotOf \in [1..Len(chatMessages) -> DOMAIN handled[1]] :
              /\ \A i, j \in 1..Len(chatMessages) : slotOf[i] = slotOf[j] => i = j
              /\ \A i \in 1..Len(chatMessages) :
                    LET r == handled[1][slotOf[i]]
                    IN /\ DOMAIN chatMessages[i] = (DOMAIN r) \cup {"key"}
                       /\ \A f \in (DOMAIN r) \ {"key"} : chatMessages[i][f] = r[f]
                       /\ chatMessages[i].key \in
                             {slotOf[i]} \cup {r[f] : f \in (DOMAIN r) \cap {"key"}}

C28_Witness ==
    /\ handled # <<>>
    /\ Cardinality(DOMAIN handled[1]) = 2
    /\ Len(chatMessages) = 2
    /\ handled[1][1] = handled[1][2]
    /\ SortTime(chatMessages[1]) = SortTime(chatMessages[2])

\* C29: the second record a call writes is the first with the status
\* changed and nothing else: same properties, same key, command and
\* commandTimestamp; the key of both is the push key, which is the slot both
\* are written to.
C29_WritesDifferInStatusOnly ==
    \A c \in Accepted :
        LET first == calls[c].issued[1]
        IN /\ first.key = calls[c].pushKey
           /\ Len(calls[c].issued) = 2 =>
                 LET second == calls[c].issued[2]
                 IN /\ DOMAIN second = DOMAIN first
                    /\ \A f \in (DOMAIN first) \ {"status"} : second[f] = first[f]
                    /\ second.status # first.status
                    /\ second.key = calls[c].pushKey
           /\ (FirstWriteDone(c) /\ calls[c].pushKey \notin agentWrote)
                 => db[calls[c].pushKey] \in {calls[c].issued[i] : i \in 1..Len(calls[c].issued)}

C29_Witness ==
    \E c \in Accepted :
        /\ SecondWriteDone(c)
        /\ calls[c].pushKey \notin agentWrote
        /\ db[calls[c].pushKey] = calls[c].issued[2]
        /\ calls[c].issued[2] # calls[c].issued[1]

Digits == {"0", "1", "2", "3", "4", "5", "6", "7", "8", "9"}

\* a number as the claims describe it: digits with an optional sign in
\* front and an optional decimal point
NumericLooking(token) ==
    /\ \E i \in 1..Len(token) : token[i] \in Digits
    /\ \A i \in 1..Len(token) :
          \/ token[i] \in Digits
          \/ token[i] = "-" /\ i = 1
          \/ token[i] = "." /\ \A j \in 1..Len(token) : token[j] = "." => j = i

\* the text behind the first "Path:" of r, cut at the '|'
ClaimedPairs(r) ==
    LET i == CHOOSE j \in 1..Len(r) :
                 StartsAt(r, j, PathMarker) /\ \A h \in 1..(j - 1) : ~StartsAt(r, h, PathMarker)
    IN Split(Trim(SubSeq(r, i + Len(PathMarker), Len(r))), "|")

\* a pair of exactly two numeric-looking tokens
WellFormedPair(pair) ==
    LET parts == Split(pair, ",")
    IN /\ Len(parts) = 2
       /\ NumericLooking(Trim(parts[1]))
       /\ NumericLooking(Trim(parts[2]))

\* the points of the well-formed pairs of r, in the order of the pairs
ClaimedPoints(r) ==
    LET valid == SelectSeq(ClaimedPairs(r), WellFormedPair)
    IN [i \in 1..Len(valid) |->
           [lat |-> Trim(Split(valid[i], ",")[1]), lng |-> Trim(Split(valid[i], ",")[2])]]

\* the shown responses with the "Path:" marker and without the storage host
ShownPathStrings ==
    {r \in ShownResponses : Includes(r, PathMarker) /\ ~Includes(r, FirebaseHost)}

\* C21 (as claimed): every point of a response shown as a path comes from a
\* pair of exactly two numeric-looking tokens: both coordinates of every
\* point look numeric, and there are no more points than such pairs.
C21_OnlyWellFormedPairs ==
    \A r \in ShownPathStrings :
        Classify(r).variant = "Path" =>
            /\ Len(Classify(r).points) <= Len(ClaimedPoints(r))
            /\ \A k \in 1..Len(Classify(r).points) :
                  /\ NumericLooking(Classify(r).points[k].lat)
                  /\ NumericLooking(Classify(r).points[k].lng)

\* C22 (as claimed): a response with the marker and fewer than two
\* well-formed pairs is not shown as a path: it is shown as the map point
\* when a map point can be extracted and as text otherwise.
C22_FewPairsFallThrough ==
    \A r \in ShownPathStrings :
        Len(ClaimedPoints(r)) < 2 =>
            Classify(r) = IF ~IsNull(extractMapCoordinates(r))
                          THEN SinglePoint(extractMapCoordinates(r))
                          ELSE PlainText(r)

\* the response is a link with the given word in it that ends with ?q=lat,lng
LinkTo(r, word, lat, lng) ==
    LET query == <<"?">> \o QueryQ \o lat \o <<",">> \o lng
    IN /\ Includes(r, word)
       /\ Len(r) > Len(query)
       /\ SubSeq(r, Len(r) - Len(query) + 1, Len(r)) = query
       /\ ~Includes(r, FirebaseHost)
       /\ ~Includes(r, PathMarker)

MapsWord == <<"m", "a", "p", "s">>

\* C23 (as claimed): a shown link with "maps" in it that ends with the query
\* q=lat,lng of two numbers is shown as the map of the point lat, lng.
C23_AnyMapLink ==
    \A r \in ShownResponses : \A lat \in NumberTexts, lng \in NumberTexts :
        LinkTo(r, MapsWord, lat, lng) => Classify(r) = SinglePoint([lat |-> lat, lng |-> lng])

\* C23 (amended): a shown link with "google.com/maps" in it that ends with
\* the query q=lat,lng of two numbers is shown as the map of the point
\* lat, lng, the two tokens as they stand in the link; a link without
\* "google.com/maps" is shown as text.
C23_GoogleMapLink ==
    \A r \in ShownResponses : \A lat \in NumberTexts, lng \in NumberTexts :
        /\ LinkTo(r, GoogleMaps, lat, lng)
              => Classify(r) = SinglePoint([lat |-> lat, lng |-> lng])
        /\ (LinkTo(r, MapsWord, lat, lng) /\ ~Includes(r, GoogleMaps))
              => Classify(r) = PlainText(r)

C23_Witness ==
    \E r \in ShownResponses :
        /\ LinkTo(r, GoogleMaps, <<"-", "2", ".", "5">>, <<"3", "1", ".", "0", "3">>)
        /\ Classify(r).variant = "SinglePoint"
        /\ Classify(r).lat = <<"-", "2", ".", "5">>

\* C24 (as claimed): a response with the marker and two or more well-formed
\* pairs is shown as the path of exactly those pairs, in their order.
C24_PathOfTheValidPairs ==
    \A r \in ShownPathStrings :
        Len(ClaimedPoints(r)) >= 2 => Classify(r) = Path(ClaimedPoints(r))

Variants == {"VoiceNote", "Image", "GenericAttachment", "Path", "SinglePoint", "PlainText"}

\* none of the patterns of a voice note, an image, an attachment, a path
\* and a map link matches
MatchesNone(r) ==
    /\ ~Includes(r, FirebaseHost)
    /\ extractPathCoordinates(r) = <<>>
    /\ IsNull(extractMapCoordinates(r))

\* the emitted messages that carry a response, empty or not
Responded == {i \in 1..Len(chatMessages) : Has(chatMessages[i], "response")}

\* C25 (as claimed): every emitted response, the empty one too, is shown as
\* one of the six variants, and as the text itself when none of the
\* patterns matches.
C25_EveryResponseShown ==
    \A i \in Responded :
        /\ Bubble(chatMessages[i]).variant \in Variants
        /\ MatchesNone(chatMessages[i].response)
              => Bubble(chatMessages[i]) = [variant |-> "PlainText",
                                            text |-> chatMessages[i].response]

\* C25 (amended): every emitted response that is not empty is shown as one
\* of the six variants, as text exactly when none of the patterns matches,
\* and then with the response as its text; for an empty response no bubble
\* is rendered.
C25_EveryNonEmptyResponseShown ==
    \A i \in Responded :
        LET r == chatMessages[i].response
            shown == Bubble(chatMessages[i])
        IN IF r = <<>> THEN shown = NoBubble
           ELSE /\ shown.variant \in Variants
                /\ shown.variant = "PlainText" <=> MatchesNone(r)
                /\ MatchesNone(r) => shown = [variant |-> "PlainText", text |-> r]

C25_Witness ==
    \E i \in Responded :
        /\ chatMessages[i].response = OkText
        /\ Bubble(chatMessages[i]) = [variant |-> "PlainText", text |-> OkText]

====
